---- MODULE Spec2Model ----
(***************************************************************************)
(* Model of the useDraggable hook                                          *)
(* (packages/core/src/hooks/elements/useDraggable/index.tsx).              *)
(*                                                                         *)
(* The hook keeps one React state cell (written by setDraggableState) and  *)
(* two refs (elementRef, startPosRef).  The event handlers are closures    *)
(* created by a render: they read the draggableState and the options that  *)
(* render saw, and they write the state cell.  The model therefore keeps   *)
(* the state cell (store) apart from the value the handlers of the last    *)
(* render captured (draggableState); a render copies the former into the   *)
(* latter and re-runs the listener effect.                                 *)
(***************************************************************************)
EXTENDS Integers, Sequences, FiniteSets, TLC

\* ------------------------------------------------------------------ bounds
MaxSteps == 5        \* operations (events, calls, renders) in one run

\* ------------------------------------------------------------------ values
None == <<>>                       \* null / undefined
Some(v) == <<v>>
Val(o) == o[1]

Pt(x, y) == [x |-> x, y |-> y]
Origin == Pt(0, 0)

\* pointer positions (clientX, clientY) an event can carry
PointerChoices == { Pt(0, 0), Pt(1, 2), Pt(2, 1) }
\* bounding boxes (left, top) the attached element is measured at
RectChoices == { [left |-> 0, top |-> 0], [left |-> 1, top |-> 1] }
\* arguments given to setPosition
SetChoices == { Pt(2, -1), Pt(-1, 2) }

Elements    == {"el1", "el2"}      \* DOM elements an event can target
NullElement == "null"

Axes == {"both", "x", "y"}

Rect(l, t, r, b) == [left |-> l, top |-> t, right |-> r, bottom |-> b]
\* bounds options a caller passes: none, a rectangle that leaves the origin
\* out on the x axis, and a rectangle inverted on both axes
BoundsChoices ==
    { None,
      Some(Rect(1, 0, 2, 1)),
      Some(Rect(1, 2, 0, 1)) }

\* native events: a mouse event carries clientX/clientY, a touch event a list
\* of touches
MouseEvent(target, x, y) ==
    [target |-> target, clientX |-> x, clientY |-> y]
TouchEvent(target, x, y) ==
    [target |-> target, touches |-> << [clientX |-> x, clientY |-> y] >>]
\* touchend: the lifted finger is no longer in touches
TouchEndEvent(target) == [target |-> target, touches |-> << >>]

VARIABLES
    store,           \* the React state cell behind useState (latest state)
    draggableState,  \* the state captured by the closures of the last render
    startPosRef,     \* startPosRef.current
    elementRef,      \* elementRef.current
    axis,            \* options of the last render
    bounds,
    disabled,
    hasDocument,     \* the document option (or the global document) exists
    hasWindow,       \* the window option (or the global window) exists
    throwing,        \* the caller's onStart/onMove/onEnd throw
    listening,       \* the six document listeners are registered
    resultRef,       \* the state fields of resultRef.current
    lastOp,          \* history: the operation of the last step and its inputs
    fired,           \* history: callback invoked by the last step, with the
                     \* state it was given
    session,         \* history: position and axis at the last drag start, as
                     \* long as only events followed it
    unmatched,       \* history: onStart was invoked and no onEnd since
    defaultPrevented,\* history: the last event had preventDefault() called
    thrown,          \* history: the last event's listener exited by throwing
    steps            \* operations so far

\* The listener effect of useDraggable in detail: the listener lists of the
\* event targets and the effect's cleanup closure.
VARIABLES
    listeners,       \* event target -> the listeners registered on it
    mounted,         \* "no", "yes", "unmounted"
    deps,            \* the options the listener effect last ran with
    cleanup,         \* the cleanup closure the last effect run returned
    ranCleanup,      \* the cleanup closure that ran last
    effects          \* runs of the listener effect that registered handlers

dragVars == << store, draggableState, startPosRef, elementRef, axis, bounds,
               disabled, hasDocument, hasWindow, throwing, listening,
               resultRef, fired, session, unmatched, defaultPrevented,
               thrown, steps >>

registryVars == << listeners, mounted, deps, cleanup, ranCleanup, effects >>

\* The hook useDocumentVisibility.
VARIABLES
    docVisibility,   \* document -> its visibilityState
    visibilityState, \* the state the hook last stored
    visibilityRef,   \* visibilityRef.current, the value the caller reads
    handled,         \* history: a listener of the hook ran
    wasImmediate,    \* history: a render had immediate = true
    hadSurface       \* history: a render had a document or a window

visibilityVars == << docVisibility, visibilityState, visibilityRef, handled,
                     wasImmediate, hadSurface >>

\* The hook useActiveElement and the focus state of the page.
VARIABLES
    focus,           \* activeElement of the document "docA"
    shadowActive,    \* shadow host -> activeElement of its shadow root
    removed,         \* the nodes removed from the document
    activeElement,   \* the state the hook last stored
    activeElementRef,\* activeElementRef.current, the value the caller reads
    observers,       \* the connected MutationObservers, in creation order
    disconnect       \* the cleanup closure of the observer effect

activeVars == << focus, shadowActive, removed, activeElement,
                 activeElementRef, observers, disconnect >>

vars == << dragVars, lastOp, registryVars, visibilityVars, activeVars >>

NoCall == None
Call(name, st) == Some([name |-> name, state |-> st])

\* lastOp: the kind of event delivered or the call made, with the argument
\* of a call
Op(name, arg) == [name |-> name, arg |-> arg]
EventNames == {"down", "move", "up"}

\* ---------------------------------------------------------- pure functions
getCurrentPosition(event) ==
    IF "touches" \in DOMAIN event
    THEN LET touch == event.touches[1] IN Pt(touch.clientX, touch.clientY)
    ELSE Pt(event.clientX, event.clientY)

\* Math.max / Math.min
MathMax(a, b) == IF a >= b THEN a ELSE b
MathMin(a, b) == IF a <= b THEN a ELSE b

\* mutant: the lower limits are forgotten
constrainPositionNoLower(pos, b) ==
    IF b = None THEN pos
    ELSE Pt(MathMin(Val(b).right, pos.x), MathMin(Val(b).bottom, pos.y))

\* mutant: the upper limits are forgotten
constrainPositionNoUpper(pos, b) ==
    IF b = None THEN pos
    ELSE Pt(MathMax(Val(b).left, pos.x), MathMax(Val(b).top, pos.y))

constrainPosition(pos, b) ==
    IF b = None THEN pos
    ELSE Pt(MathMax(Val(b).left, MathMin(Val(b).right, pos.x)),
            MathMax(Val(b).top, MathMin(Val(b).bottom, pos.y)))

\* mutant: the axes are swapped
applyAxisConstraintsSwapped(pos, ax, prev) ==
    IF ax = "x" THEN Pt(prev.x, pos.y)
    ELSE IF ax = "y" THEN Pt(pos.x, prev.y)
    ELSE pos

applyAxisConstraints(pos, ax, prev) ==
    IF ax = "x" THEN Pt(pos.x, prev.y)
    ELSE IF ax = "y" THEN Pt(prev.x, pos.y)
    ELSE pos

InitialState ==
    [isDragging |-> FALSE, position |-> Origin, delta |-> Origin,
     startPosition |-> None]

\* ------------------------------------------------------------------- Init
\* The state after the first render and its effects.  React calls the ref
\* callback while committing, so the element may already be attached.
Mounted ==
    /\ store = InitialState
    /\ draggableState = InitialState
    /\ resultRef = InitialState
    /\ startPosRef = None
    /\ elementRef \in {NullElement, "el1"}
    /\ axis \in Axes
    /\ bounds \in BoundsChoices
    /\ disabled \in BOOLEAN
    /\ hasDocument \in BOOLEAN
    /\ hasWindow \in BOOLEAN
    /\ listening = (hasDocument /\ hasWindow /\ ~disabled)
    /\ lastOp = Op("init", None)
    /\ fired = NoCall
    /\ session = None
    /\ unmatched = FALSE
    /\ defaultPrevented = FALSE
    /\ thrown = FALSE
    /\ steps = 0

\* Spec abstracts the listener lists into the flag listening
RegistryAbstracted ==
    /\ listeners = [t \in {} |-> {}]
    /\ mounted = "yes"
    /\ deps = None
    /\ cleanup = None
    /\ ranCleanup = None
    /\ effects = 0

\* the other hook is not part of Spec
VisibilityAbstracted ==
    /\ docVisibility = [d \in {} |-> "visible"]
    /\ visibilityState = None
    /\ visibilityRef = None
    /\ handled = FALSE
    /\ wasImmediate = FALSE
    /\ hadSurface = FALSE

\* nor is useActiveElement
ActiveAbstracted ==
    /\ focus = None
    /\ shadowActive = None
    /\ removed = {}
    /\ activeElement = None
    /\ activeElementRef = None
    /\ observers = << >>
    /\ disconnect = None

\* callbacks that return normally
Init ==
    /\ Mounted
    /\ throwing = FALSE
    /\ RegistryAbstracted
    /\ VisibilityAbstracted
    /\ ActiveAbstracted

\* callbacks that throw
InitThrowing ==
    /\ Mounted
    /\ throwing = TRUE
    /\ RegistryAbstracted
    /\ VisibilityAbstracted
    /\ ActiveAbstracted

\* every operation counts against the length of the run
Tick ==
    /\ steps < MaxSteps
    /\ steps' = steps + 1

\* --------------------------------------------------------------- handlers
\* an early return: nothing is written, no callback runs
Ignored ==
    /\ fired' = NoCall
    /\ defaultPrevented' = FALSE
    /\ thrown' = FALSE
    /\ UNCHANGED << store, startPosRef, session, unmatched >>

\* mutant: the start offset is the pointer position, the rectangle unread
handleDragStartIgnoresRect(event, rect) ==
    IF disabled THEN Ignored
    ELSE IF elementRef = NullElement
    THEN /\ fired' = NoCall
         /\ defaultPrevented' = TRUE
         /\ thrown' = FALSE
         /\ UNCHANGED << store, startPosRef, session, unmatched >>
    ELSE LET currentPos == getCurrentPosition(event)
             start == Pt(currentPos.x, currentPos.y)
             newState == [isDragging |-> TRUE,
                          position |-> draggableState.position,
                          delta |-> Origin,
                          startPosition |-> Some(start)]
         IN /\ startPosRef' = Some(start)
            /\ store' = newState
            /\ fired' = Call("onStart", newState)
            /\ defaultPrevented' = TRUE
            /\ thrown' = throwing
            /\ unmatched' = TRUE
            /\ session' = Some([position |-> newState.position,
                                axis |-> axis])

\* rect: what elementRef.current?.getBoundingClientRect() returns now
handleDragStart(event, rect) ==
    IF disabled THEN Ignored
    ELSE IF elementRef = NullElement
    THEN \* preventDefault() was called, rect is undefined
         /\ fired' = NoCall
         /\ defaultPrevented' = TRUE
         /\ thrown' = FALSE
         /\ UNCHANGED << store, startPosRef, session, unmatched >>
    ELSE LET currentPos == getCurrentPosition(event)
             start == Pt(currentPos.x - rect.left, currentPos.y - rect.top)
             newState == [isDragging |-> TRUE,
                          position |-> draggableState.position,
                          delta |-> Origin,
                          startPosition |-> Some(start)]
         IN /\ startPosRef' = Some(start)
            /\ store' = newState
            /\ fired' = Call("onStart", newState)
            /\ defaultPrevented' = TRUE
            /\ thrown' = throwing
            /\ unmatched' = TRUE
            /\ session' = Some([position |-> newState.position,
                                axis |-> axis])

\* mutant: a move is ignored once the element is detached
handleDragMoveNeedsElement(event) ==
    IF ~draggableState.isDragging \/ disabled \/ startPosRef = None
       \/ elementRef = NullElement
    THEN Ignored
    ELSE LET currentPos == getCurrentPosition(event)
             newPosition == Pt(currentPos.x - Val(startPosRef).x,
                               currentPos.y - Val(startPosRef).y)
             constrainedPos == applyAxisConstraints(newPosition, axis,
                                                    draggableState.position)
             finalPos == constrainPosition(constrainedPos, bounds)
             delta == Pt(finalPos.x - draggableState.position.x,
                         finalPos.y - draggableState.position.y)
             newState == [isDragging |-> TRUE,
                          position |-> finalPos,
                          delta |-> delta,
                          startPosition |-> startPosRef]
         IN /\ store' = newState
            /\ fired' = Call("onMove", newState)
            /\ defaultPrevented' = TRUE
            /\ thrown' = throwing
            /\ UNCHANGED << startPosRef, session, unmatched >>

\* mutant: the bounds are applied before the axis
handleDragMoveClampsFirst(event) ==
    IF ~draggableState.isDragging \/ disabled \/ startPosRef = None
    THEN Ignored
    ELSE LET currentPos == getCurrentPosition(event)
             newPosition == Pt(currentPos.x - Val(startPosRef).x,
                               currentPos.y - Val(startPosRef).y)
             constrainedPos == constrainPosition(newPosition, bounds)
             finalPos == applyAxisConstraints(constrainedPos, axis,
                                              draggableState.position)
             delta == Pt(finalPos.x - draggableState.position.x,
                         finalPos.y - draggableState.position.y)
             newState == [isDragging |-> TRUE,
                          position |-> finalPos,
                          delta |-> delta,
                          startPosition |-> startPosRef]
         IN /\ store' = newState
            /\ fired' = Call("onMove", newState)
            /\ defaultPrevented' = TRUE
            /\ thrown' = throwing
            /\ UNCHANGED << startPosRef, session, unmatched >>

\* mutant: preventDefault() is called before the guard
handleDragMovePreventsFirst(event) ==
    IF ~draggableState.isDragging \/ disabled \/ startPosRef = None
    THEN /\ fired' = NoCall
         /\ defaultPrevented' = TRUE
         /\ thrown' = FALSE
         /\ UNCHANGED << store, startPosRef, session, unmatched >>
    ELSE LET currentPos == getCurrentPosition(event)
             newPosition == Pt(currentPos.x - Val(startPosRef).x,
                               currentPos.y - Val(startPosRef).y)
             constrainedPos == applyAxisConstraints(newPosition, axis,
                                                    draggableState.position)
             finalPos == constrainPosition(constrainedPos, bounds)
             delta == Pt(finalPos.x - draggableState.position.x,
                         finalPos.y - draggableState.position.y)
             newState == [isDragging |-> TRUE,
                          position |-> finalPos,
                          delta |-> delta,
                          startPosition |-> startPosRef]
         IN /\ store' = newState
            /\ fired' = Call("onMove", newState)
            /\ defaultPrevented' = TRUE
            /\ thrown' = throwing
            /\ UNCHANGED << startPosRef, session, unmatched >>

handleDragMove(event) ==
    IF ~draggableState.isDragging \/ disabled \/ startPosRef = None
    THEN Ignored
    ELSE LET currentPos == getCurrentPosition(event)
             newPosition == Pt(currentPos.x - Val(startPosRef).x,
                               currentPos.y - Val(startPosRef).y)
             constrainedPos == applyAxisConstraints(newPosition, axis,
                                                    draggableState.position)
             finalPos == constrainPosition(constrainedPos, bounds)
             delta == Pt(finalPos.x - draggableState.position.x,
                         finalPos.y - draggableState.position.y)
             newState == [isDragging |-> TRUE,
                          position |-> finalPos,
                          delta |-> delta,
                          startPosition |-> startPosRef]
         IN /\ store' = newState
            /\ fired' = Call("onMove", newState)
            /\ defaultPrevented' = TRUE
            /\ thrown' = throwing
            /\ UNCHANGED << startPosRef, session, unmatched >>

\* mutant: the end handler has no isDragging guard
handleDragEndUnguarded(event) ==
    LET newState == [draggableState EXCEPT !.isDragging = FALSE]
    IN /\ store' = newState
       /\ startPosRef' = None
       /\ fired' = Call("onEnd", newState)
       /\ defaultPrevented' = FALSE
       /\ thrown' = throwing
       /\ unmatched' = FALSE
       /\ session' = None

\* mutant: onEnd is invoked before the state is stored and the ref cleared
handleDragEndCallbackFirst(event) ==
    IF ~draggableState.isDragging THEN Ignored
    ELSE LET newState == [draggableState EXCEPT !.isDragging = FALSE]
         IN /\ fired' = Call("onEnd", newState)
            /\ defaultPrevented' = FALSE
            /\ thrown' = throwing
            /\ unmatched' = FALSE
            /\ session' = None
            /\ IF throwing
               THEN UNCHANGED << store, startPosRef >>
               ELSE store' = newState /\ startPosRef' = None

handleDragEnd(event) ==
    IF ~draggableState.isDragging THEN Ignored
    ELSE LET newState == [draggableState EXCEPT !.isDragging = FALSE]
         IN /\ store' = newState
            /\ startPosRef' = None
            /\ fired' = Call("onEnd", newState)
            /\ defaultPrevented' = FALSE
            /\ thrown' = throwing
            /\ unmatched' = FALSE
            /\ session' = None

\* -------------------------------------------------- document listeners
\* mutant: the target of the event is not compared
handleMouseDownAnyTarget(event, rect) == handleDragStart(event, rect)

handleMouseDown(event, rect) ==
    IF event.target = elementRef THEN handleDragStart(event, rect)
    ELSE Ignored

handleMouseMove(event) == handleDragMove(event)

handleMouseUp(event) == handleDragEnd(event)

handleTouchStart(event, rect) ==
    IF event.target = elementRef THEN handleDragStart(event, rect)
    ELSE Ignored

handleTouchMove(event) == handleDragMove(event)

handleTouchEnd(event) == handleDragEnd(event)

\* The document delivers an event: the registered listener runs, if any.
\* arg is what the history keeps of the event.
Deliver(name, arg, handler) ==
    /\ Tick
    /\ lastOp' = Op(name, arg)
    /\ IF listening THEN handler ELSE Ignored
    /\ UNCHANGED << draggableState, elementRef, axis, bounds, disabled,
                    hasDocument, hasWindow, throwing, listening, resultRef >>
    /\ UNCHANGED << registryVars, visibilityVars, activeVars >>

Dispatch(name, handler) == Deliver(name, None, handler)

MouseDown ==
    \E t \in Elements, p \in PointerChoices, rect \in RectChoices :
        Dispatch("down", handleMouseDown(MouseEvent(t, p.x, p.y), rect))

TouchStart ==
    \E t \in Elements, p \in PointerChoices, rect \in RectChoices :
        Dispatch("down", handleTouchStart(TouchEvent(t, p.x, p.y), rect))

\* the handlers of move and up events never read event.target
MouseMove ==
    \E p \in PointerChoices, t \in {"el2"} :
        Dispatch("move", handleMouseMove(MouseEvent(t, p.x, p.y)))

TouchMove ==
    \E p \in PointerChoices, t \in {"el2"} :
        Dispatch("move", handleTouchMove(TouchEvent(t, p.x, p.y)))

MouseUp ==
    \E t \in {"el2"} :
        Dispatch("up", handleMouseUp(MouseEvent(t, 0, 0)))

TouchEnd ==
    \E t \in {"el2"} :
        Dispatch("up", handleTouchEnd(TouchEndEvent(t)))

\* ------------------------------------------------------ imperative calls
CallOp(name, arg) ==
    /\ Tick
    /\ lastOp' = Op(name, arg)
    /\ fired' = NoCall
    /\ defaultPrevented' = FALSE
    /\ thrown' = FALSE
    /\ UNCHANGED << hasDocument, hasWindow, throwing, unmatched >>
    /\ UNCHANGED << registryVars, visibilityVars, activeVars >>

setElementRef(element) ==
    /\ elementRef' = element
    /\ CallOp("setElementRef", None)
    /\ UNCHANGED << store, draggableState, startPosRef, axis, bounds,
                    disabled, listening, resultRef, session >>

\* mutant: the reset also closes the session
resetPositionEndsDrag ==
    /\ store' = [store EXCEPT !.position = Origin, !.delta = Origin,
                              !.isDragging = FALSE]
    /\ CallOp("resetPosition", None)
    /\ session' = None
    /\ UNCHANGED << draggableState, startPosRef, elementRef, axis, bounds,
                    disabled, listening, resultRef >>

resetPosition ==
    /\ store' = [store EXCEPT !.position = Origin, !.delta = Origin]
    /\ CallOp("resetPosition", None)
    /\ session' = None
    /\ UNCHANGED << draggableState, startPosRef, elementRef, axis, bounds,
                    disabled, listening, resultRef >>

\* mutant: the argument is stored as given
setPositionUnclamped(x, y) ==
    /\ store' = [store EXCEPT !.position = Pt(x, y)]
    /\ CallOp("setPosition", Some(Pt(x, y)))
    /\ session' = None
    /\ UNCHANGED << draggableState, startPosRef, elementRef, axis, bounds,
                    disabled, listening, resultRef >>

\* mutant: delta is zeroed along with the new position
setPositionResetsDelta(x, y) ==
    /\ LET newPos == constrainPosition(Pt(x, y), bounds)
       IN store' = [store EXCEPT !.position = newPos, !.delta = Origin]
    /\ CallOp("setPosition", Some(Pt(x, y)))
    /\ session' = None
    /\ UNCHANGED << draggableState, startPosRef, elementRef, axis, bounds,
                    disabled, listening, resultRef >>

setPosition(x, y) ==
    /\ LET newPos == constrainPosition(Pt(x, y), bounds)
       IN store' = [store EXCEPT !.position = newPos]
    /\ CallOp("setPosition", Some(Pt(x, y)))
    /\ session' = None
    /\ UNCHANGED << draggableState, startPosRef, elementRef, axis, bounds,
                    disabled, listening, resultRef >>

\* ---------------------------------------------------------------- renders
\* A render with the given options and the effects it schedules: the closures
\* capture the latest state and the options, the listener effect re-runs
\* (cleanup of the previous listeners, then registration unless disabled or
\* without a document or window), and the last effect copies the rendered
\* state into resultRef.current.
\* mutant: the listener effect registers the listeners also when disabled
useDraggableKeepsListeners(ax, b, d) ==
    /\ draggableState' = store
    /\ axis' = ax
    /\ bounds' = b
    /\ disabled' = d
    /\ listening' = TRUE
    /\ resultRef' = store
    /\ CallOp("render", None)
    /\ session' = IF ax = axis /\ b = bounds THEN session ELSE None
    /\ UNCHANGED << store, startPosRef, elementRef >>

\* mutant: a render with another axis starts from the origin again
useDraggableResetsOnAxis(ax, b, d) ==
    /\ store' = IF ax = axis THEN store
                ELSE [store EXCEPT !.position = Origin, !.delta = Origin]
    /\ draggableState' = store'
    /\ axis' = ax
    /\ bounds' = b
    /\ disabled' = d
    /\ listening' = (hasDocument /\ hasWindow /\ ~d)
    /\ resultRef' = store'
    /\ CallOp("render", None)
    /\ session' = IF ax = axis /\ b = bounds THEN session ELSE None
    /\ UNCHANGED << startPosRef, elementRef >>

\* mutant: the listener effect does not look at the window
useDraggableWithoutWindow(ax, b, d) ==
    /\ draggableState' = store
    /\ axis' = ax
    /\ bounds' = b
    /\ disabled' = d
    /\ listening' = (hasDocument /\ ~d)
    /\ resultRef' = store
    /\ CallOp("render", None)
    /\ session' = IF ax = axis /\ b = bounds THEN session ELSE None
    /\ UNCHANGED << store, startPosRef, elementRef >>

useDraggable(ax, b, d) ==
    /\ draggableState' = store
    /\ axis' = ax
    /\ bounds' = b
    /\ disabled' = d
    /\ listening' = (hasDocument /\ hasWindow /\ ~d)
    /\ resultRef' = store
    /\ CallOp("render", None)
    /\ session' = IF ax = axis /\ b = bounds THEN session ELSE None
    /\ UNCHANGED << store, startPosRef, elementRef >>

\* re-render scheduled by setDraggableState: same options
Render ==
    /\ draggableState # store
    /\ useDraggable(axis, bounds, disabled)

\* re-render by the caller, with one option changed
SetOptions ==
    \/ \E ax \in Axes \ {axis} : useDraggable(ax, bounds, disabled)
    \/ \E b \in BoundsChoices \ {bounds} : useDraggable(axis, b, disabled)
    \/ useDraggable(axis, bounds, ~disabled)

SetElementRef == \E el \in Elements \cup {NullElement} : setElementRef(el)
ResetPosition == resetPosition
SetPosition == \E p \in SetChoices : setPosition(p.x, p.y)

Next ==
    \/ MouseDown
    \/ TouchStart
    \/ MouseMove
    \/ TouchMove
    \/ MouseUp
    \/ TouchEnd
    \/ SetElementRef
    \/ ResetPosition
    \/ SetPosition
    \/ Render
    \/ SetOptions

Spec == Init /\ [][Next]_vars

\* the same hook, given callbacks that throw
SpecThrowing == InitThrowing /\ [][Next]_vars

\* The same hook mounted enabled on an attached element, with a document and
\* a window, the history keeping the target, the pointer and the measured
\* rectangle of each down event and the pointer of each move event.
InitInputs ==
    /\ Init
    /\ hasDocument
    /\ hasWindow
    /\ elementRef = "el1"
    /\ ~disabled

DownInput(t, p, rect) == Some([target |-> t, pointer |-> p, rect |-> rect])

MoveInput(p) == Some([pointer |-> p])

MouseDownInput ==
    \E t \in Elements, p \in PointerChoices, rect \in RectChoices :
        Deliver("down", DownInput(t, p, rect),
                handleMouseDown(MouseEvent(t, p.x, p.y), rect))

TouchStartInput ==
    \E t \in Elements, p \in PointerChoices, rect \in RectChoices :
        Deliver("down", DownInput(t, p, rect),
                handleTouchStart(TouchEvent(t, p.x, p.y), rect))

MouseMoveInput ==
    \E p \in PointerChoices, t \in {"el2"} :
        Deliver("move", MoveInput(p),
                handleMouseMove(MouseEvent(t, p.x, p.y)))

TouchMoveInput ==
    \E p \in PointerChoices, t \in {"el2"} :
        Deliver("move", MoveInput(p),
                handleTouchMove(TouchEvent(t, p.x, p.y)))

NextInputs ==
    \/ MouseDownInput
    \/ TouchStartInput
    \/ MouseMoveInput
    \/ TouchMoveInput
    \/ MouseUp
    \/ TouchEnd
    \/ SetElementRef
    \/ ResetPosition
    \/ SetPosition
    \/ Render
    \/ SetOptions

SpecInputs == InitInputs /\ [][NextInputs]_vars

\* ------------------------------------------------- the listener effect
\* The effect of lines 180-238 against the listener lists of the documents it
\* is given. A listener list holds one entry per (type, callback, capture);
\* adding an entry that is there and removing one that is not do nothing.
MaxEffects == 3      \* runs of the listener effect that register handlers

Documents == {"docA", "docB"}
Undefined == "undefined"

EventTypes == {"mousedown", "mousemove", "mouseup",
               "touchstart", "touchmove", "touchend"}

\* the closures one run of the effect creates, by the event they are added for
HandlerOf(type, run) ==
    [name |-> CASE type = "mousedown"  -> "handleMouseDown"
                [] type = "mousemove"  -> "handleMouseMove"
                [] type = "mouseup"    -> "handleMouseUp"
                [] type = "touchstart" -> "handleTouchStart"
                [] type = "touchmove"  -> "handleTouchMove"
                [] type = "touchend"   -> "handleTouchEnd",
     run |-> run]

\* a listener somebody else registered on the same document
Foreign == [name |-> "foreign", run |-> 0]

Listener(type, callback, passive) ==
    [type |-> type, callback |-> callback, capture |-> FALSE,
     passive |-> passive]

Same(e, type, callback) ==
    e.type = type /\ e.callback = callback /\ e.capture = FALSE

addEventListener(list, type, callback, passive) ==
    IF \E e \in list : Same(e, type, callback) THEN list
    ELSE list \cup {Listener(type, callback, passive)}

removeEventListener(list, type, callback) ==
    {e \in list : ~Same(e, type, callback)}

\* lines 212-221: touchstart and touchmove are added with passive: false
PassiveOf(type) ==
    IF type \in {"touchstart", "touchmove"} THEN "false" ELSE "default"

RECURSIVE AddAll(_, _, _)
AddAll(list, types, run) ==
    IF types = {} THEN list
    ELSE LET type == CHOOSE t \in types : TRUE
         IN AddAll(addEventListener(list, type, HandlerOf(type, run),
                                    PassiveOf(type)),
                   types \ {type}, run)

RECURSIVE RemoveAll(_, _, _)
RemoveAll(list, types, run) ==
    IF types = {} THEN list
    ELSE LET type == CHOOSE t \in types : TRUE
         IN RemoveAll(removeEventListener(list, type, HandlerOf(type, run)),
                      types \ {type}, run)

\* the cleanup closure of lines 223-230, run against the listener lists
\* mutant: a listener added with passive: false is not removed
RunCleanupKeepsTouch(c, lists) ==
    IF c = None THEN lists
    ELSE [lists EXCEPT ![Val(c).document] =
              RemoveAll(@, EventTypes \ {"touchstart", "touchmove"},
                        Val(c).run)]

RunCleanup(c, lists) ==
    IF c = None THEN lists
    ELSE [lists EXCEPT ![Val(c).document] =
              RemoveAll(@, EventTypes, Val(c).run)]

Deps(doc, win, dis, handlers) ==
    [document |-> doc, window |-> win, disabled |-> dis,
     handlers |-> handlers]

\* the effect body of lines 180-221 with the options of this render
RunEffect(d, lists) ==
    IF d.document = Undefined \/ d.window = Undefined \/ d.disabled
    THEN /\ listeners' = lists
         /\ cleanup' = None
         /\ effects' = effects
    ELSE /\ listeners' = [lists EXCEPT ![d.document] =
                              AddAll(@, EventTypes, effects + 1)]
         /\ cleanup' = Some([document |-> d.document, run |-> effects + 1])
         /\ effects' = effects + 1

\* SpecListeners leaves the drag state aside
DragAbstracted ==
    /\ Mounted
    /\ elementRef = NullElement
    /\ axis = "both"
    /\ bounds = None
    /\ ~disabled
    /\ hasDocument
    /\ hasWindow
    /\ throwing = FALSE

ListenersInit ==
    /\ listeners = [t \in Documents |-> {Listener("mousedown", Foreign,
                                                   "default")}]
    /\ mounted = "no"
    /\ deps = None
    /\ cleanup = None
    /\ ranCleanup = None
    /\ effects = 0
    /\ DragAbstracted
    /\ VisibilityAbstracted
    /\ ActiveAbstracted

\* first render and its effects
Mount ==
    /\ mounted = "no"
    /\ \E doc \in Documents \cup {Undefined}, win \in {"win", Undefined},
          dis \in BOOLEAN :
          /\ deps' = Some(Deps(doc, win, dis, 1))
          /\ RunEffect(Val(deps'), listeners)
    /\ mounted' = "yes"
    /\ lastOp' = Op("mount", None)
    /\ UNCHANGED << ranCleanup, dragVars, visibilityVars, activeVars >>

\* a re-render: React re-runs the effect when one of its dependencies
\* changed, the previous run's cleanup first
Rerender ==
    /\ mounted = "yes"
    /\ effects < MaxEffects
    /\ \E doc \in Documents \cup {Undefined}, win \in {"win", Undefined},
          dis \in BOOLEAN,
          newHandlers \in {h \in BOOLEAN : h => Val(deps).handlers < MaxEffects} :
          LET d == Deps(doc, win, dis,
                        IF newHandlers THEN Val(deps).handlers + 1
                        ELSE Val(deps).handlers)
          IN /\ deps' = Some(d)
             /\ IF d = Val(deps)
                THEN UNCHANGED << listeners, cleanup, ranCleanup, effects >>
                ELSE /\ RunEffect(d, RunCleanup(cleanup, listeners))
                     /\ ranCleanup' = IF cleanup = None THEN ranCleanup
                                      ELSE cleanup
    /\ lastOp' = Op("render", None)
    /\ UNCHANGED << mounted, dragVars, visibilityVars, activeVars >>

Unmount ==
    /\ mounted = "yes"
    /\ listeners' = RunCleanup(cleanup, listeners)
    /\ ranCleanup' = IF cleanup = None THEN ranCleanup ELSE cleanup
    /\ cleanup' = None
    /\ mounted' = "unmounted"
    /\ lastOp' = Op("unmount", None)
    /\ UNCHANGED << deps, effects, dragVars, visibilityVars, activeVars >>

\* a cleanup closure that already ran is called once more
CleanupAgain ==
    /\ ranCleanup # None
    /\ listeners' = RunCleanup(ranCleanup, listeners)
    /\ lastOp' = Op("cleanupAgain", None)
    /\ UNCHANGED << mounted, deps, cleanup, ranCleanup, effects, dragVars,
                    visibilityVars, activeVars >>

NextListeners ==
    \/ Mount
    \/ Rerender
    \/ Unmount
    \/ CleanupAgain

SpecListeners == ListenersInit /\ [][NextListeners]_vars

\* ------------------------------------------------ useDocumentVisibility
\* The hook keeps document.visibilityState in a state cell and copies the
\* rendered cell into visibilityRef.current in an effect; its listener effect
\* registers one closure for visibilitychange on the document and for
\* pagehide and pageshow on the window. It uses the listener lists, deps,
\* cleanup and effects of the section above for its own listener effect.
VisibilityStates == {"visible", "hidden", "prerender"}
Windows == {"win"}

Options(doc, win, imm) == [document |-> doc, window |-> win, immediate |-> imm]

OptionChoices ==
    { Options(doc, win, imm) : doc \in Documents \cup {Undefined},
                               win \in Windows \cup {Undefined},
                               imm \in BOOLEAN }

\* mutant: prerender is reported as hidden
getDocumentVisibilityTwoStates(document) ==
    IF docVisibility[document] = "prerender" THEN "hidden"
    ELSE docVisibility[document]

getDocumentVisibility(document) == docVisibility[document]

getCurrentVisibilityState(customDocument) ==
    IF customDocument = Undefined THEN Undefined
    ELSE getDocumentVisibility(customDocument)

updateVisibilityState(customDocument) ==
    visibilityState' = getCurrentVisibilityState(customDocument)

handleVisibilityChange(run) == [name |-> "handleVisibilityChange", run |-> run]

\* mutant: without a document the initial effect stores "visible"
InitialEffectDefaultsVisible(o) ==
    IF o.document # Undefined /\ o.immediate
    THEN updateVisibilityState(o.document)
    ELSE IF o.document = Undefined
         THEN visibilityState' = "visible"
         ELSE UNCHANGED visibilityState

\* mutant: the initial effect does not look at immediate
InitialEffectAlways(o) ==
    IF o.document # Undefined
    THEN updateVisibilityState(o.document)
    ELSE UNCHANGED visibilityState

\* lines 58-62
InitialEffect(o) ==
    IF o.document # Undefined /\ o.immediate
    THEN updateVisibilityState(o.document)
    ELSE UNCHANGED visibilityState

\* mutant: the cleanup leaves the pageshow listener
VisibilityCleanupKeepsPageShow(c, lists) ==
    IF c = None THEN lists
    ELSE LET h == handleVisibilityChange(Val(c).run)
         IN [lists EXCEPT
               ![Val(c).document] = removeEventListener(@, "visibilitychange", h),
               ![Val(c).window] = removeEventListener(@, "pagehide", h)]

\* lines 82-95, the cleanup closure c run against the listener lists
VisibilityCleanup(c, lists) ==
    IF c = None THEN lists
    ELSE LET h == handleVisibilityChange(Val(c).run)
         IN [lists EXCEPT
               ![Val(c).document] = removeEventListener(@, "visibilitychange", h),
               ![Val(c).window] = removeEventListener(
                                     removeEventListener(@, "pagehide", h),
                                     "pageshow", h)]

\* lines 65-96
ListenEffect(o, lists) ==
    IF o.document = Undefined \/ o.window = Undefined
    THEN /\ listeners' = lists
         /\ cleanup' = None
         /\ effects' = effects
    ELSE LET h == handleVisibilityChange(effects + 1)
         IN /\ listeners' =
                  [lists EXCEPT
                     ![o.document] = addEventListener(@, "visibilitychange", h,
                                                      "default"),
                     ![o.window] = addEventListener(
                                      addEventListener(@, "pagehide", h,
                                                       "default"),
                                      "pageshow", h, "default")]
            /\ cleanup' = Some([document |-> o.document, window |-> o.window,
                                run |-> effects + 1])
            /\ effects' = effects + 1

VisibilityInit ==
    /\ docVisibility \in [Documents -> VisibilityStates]
    /\ visibilityState = Undefined
    /\ visibilityRef = Undefined
    /\ handled = FALSE
    /\ wasImmediate = FALSE
    /\ hadSurface = FALSE
    /\ listeners = [t \in Documents \cup Windows |->
                       IF t \in Documents
                       THEN {Listener("visibilitychange", Foreign, "default")}
                       ELSE {Listener("pagehide", Foreign, "default")}]
    /\ mounted = "no"
    /\ deps = None
    /\ cleanup = None
    /\ ranCleanup = None
    /\ effects = 0
    /\ DragAbstracted
    /\ ActiveAbstracted

HasSurface(o) == o.document # Undefined \/ o.window # Undefined

\* the options that differ between two renders
Changed(old, o) == {k \in DOMAIN o : o[k] # old[k]}

\* first render and its effects, in the order of the source
useDocumentVisibility ==
    /\ mounted = "no"
    /\ \E o \in OptionChoices :
          /\ deps' = Some(o)
          /\ visibilityRef' = visibilityState
          /\ InitialEffect(o)
          /\ ListenEffect(o, listeners)
          /\ wasImmediate' = o.immediate
          /\ hadSurface' = HasSurface(o)
    /\ mounted' = "yes"
    /\ lastOp' = Op("mount", None)
    /\ UNCHANGED << docVisibility, handled, ranCleanup, dragVars, activeVars >>

\* the re-render setVisibilityState scheduled: same options, the first effect
\* copies the rendered state into the ref
RenderVisibility ==
    /\ mounted = "yes"
    /\ visibilityRef # visibilityState
    /\ visibilityRef' = visibilityState
    /\ lastOp' = Op("render", None)
    /\ UNCHANGED << docVisibility, visibilityState, handled, wasImmediate,
                    hadSurface, registryVars, dragVars, activeVars >>

\* mutant: the initial effect does not depend on immediate
SetVisibilityOptionsOnce ==
    /\ mounted = "yes"
    /\ effects < MaxEffects
    /\ \E o \in OptionChoices \ {Val(deps)} :
          LET old == Val(deps)
          IN /\ deps' = Some(o)
             /\ visibilityRef' = visibilityState
             /\ IF o.document # old.document
                THEN InitialEffect(o)
                ELSE UNCHANGED visibilityState
             /\ IF o.document # old.document \/ o.window # old.window
                THEN /\ ListenEffect(o, VisibilityCleanup(cleanup, listeners))
                     /\ ranCleanup' = IF cleanup = None THEN ranCleanup
                                      ELSE cleanup
                ELSE UNCHANGED << listeners, cleanup, ranCleanup, effects >>
             /\ wasImmediate' = (wasImmediate \/ o.immediate)
             /\ hadSurface' = (hadSurface \/ HasSurface(o))
             /\ lastOp' = Op("options", Some(Changed(old, o)))
    /\ UNCHANGED << docVisibility, handled, mounted, dragVars, activeVars >>

\* a re-render with other options: each effect runs when a dependency changed
SetVisibilityOptions ==
    /\ mounted = "yes"
    /\ effects < MaxEffects
    /\ \E o \in OptionChoices \ {Val(deps)} :
          LET old == Val(deps)
          IN /\ deps' = Some(o)
             /\ visibilityRef' = visibilityState
             /\ IF o.document # old.document \/ o.immediate # old.immediate
                THEN InitialEffect(o)
                ELSE UNCHANGED visibilityState
             /\ IF o.document # old.document \/ o.window # old.window
                THEN /\ ListenEffect(o, VisibilityCleanup(cleanup, listeners))
                     /\ ranCleanup' = IF cleanup = None THEN ranCleanup
                                      ELSE cleanup
                ELSE UNCHANGED << listeners, cleanup, ranCleanup, effects >>
             /\ wasImmediate' = (wasImmediate \/ o.immediate)
             /\ hadSurface' = (hadSurface \/ HasSurface(o))
             /\ lastOp' = Op("options", Some(Changed(old, o)))
    /\ UNCHANGED << docVisibility, handled, mounted, dragVars, activeVars >>

\* the page is hidden, shown or prerendered
VisibilityChanges ==
    /\ \E d \in Documents, v \in VisibilityStates :
          /\ v # docVisibility[d]
          /\ docVisibility' = [docVisibility EXCEPT ![d] = v]
    /\ lastOp' = Op("change", None)
    /\ UNCHANGED << visibilityState, visibilityRef, handled, wasImmediate,
                    hadSurface, registryVars, dragVars, activeVars >>

\* an event of the given type is dispatched at the target: the listeners
\* registered for it run
Listening(type, target) ==
    \E e \in listeners[target] :
        e.type = type /\ e.callback.name = "handleVisibilityChange"

DispatchVisibility(type, target) ==
    /\ IF Listening(type, target)
       THEN /\ updateVisibilityState(Val(cleanup).document)
            /\ handled' = TRUE
       ELSE UNCHANGED << visibilityState, handled >>
    /\ lastOp' = Op(type, Some(target))
    /\ UNCHANGED << docVisibility, visibilityRef, wasImmediate, hadSurface,
                    registryVars, dragVars, activeVars >>

VisibilityChangeEvent ==
    \E d \in Documents : DispatchVisibility("visibilitychange", d)

PageHide == \E w \in Windows : DispatchVisibility("pagehide", w)

PageShow == \E w \in Windows : DispatchVisibility("pageshow", w)

UnmountVisibility ==
    /\ mounted = "yes"
    /\ listeners' = VisibilityCleanup(cleanup, listeners)
    /\ ranCleanup' = IF cleanup = None THEN ranCleanup ELSE cleanup
    /\ cleanup' = None
    /\ mounted' = "unmounted"
    /\ lastOp' = Op("unmount", None)
    /\ UNCHANGED << deps, effects, visibilityVars, dragVars, activeVars >>

NextVisibility ==
    \/ useDocumentVisibility
    \/ RenderVisibility
    \/ SetVisibilityOptions
    \/ VisibilityChanges
    \/ VisibilityChangeEvent
    \/ PageHide
    \/ PageShow
    \/ UnmountVisibility

SpecVisibility == VisibilityInit /\ [][NextVisibility]_vars

\* ----------------------------------------------------- useActiveElement
\* The page: the document "docA" has the light tree body > div > input, and
\* body > host, body > other; host has a shadow root that holds inner, inner
\* has a shadow root that holds deepest. The document "docB" has no active
\* element. The hook keeps the active element in a state cell, copies the
\* rendered cell into activeElementRef.current, listens for focusin and
\* focusout on the document and focus and blur on the window, and with
\* triggerOnRemoval observes removals with a MutationObserver. It uses the
\* listener lists, deps, cleanup and effects above for its listener effect.
Body == "body"
Hosts == {"host", "inner"}
FocusTargets == {NullElement, Body, "input", "host"}

ShadowChoices ==
    { [h \in Hosts |-> IF h = "host" THEN a ELSE b] :
        a \in {NullElement, "inner"}, b \in {NullElement, "deepest"} }

\* the focus states of the page: a shadow root has an active element only
\* while its host is the active element of the tree that holds the host
FocusStates ==
    { st \in FocusTargets \X ShadowChoices :
        /\ st[2]["host"] # NullElement => st[1] = "host"
        /\ st[2]["inner"] # NullElement => st[2]["host"] = "inner" }

\* the batches of top-level nodes one childList mutation record removes
MutationChoices == { {"input"}, {"div"}, {"host"}, {"other"} }

LightDescendants(node) == IF node = "div" THEN {"input"} ELSE {}

\* node and everything below it, shadow trees included
Subtree(node) ==
    CASE node = "div" -> {"div", "input"}
      [] node = "host" -> {"host", "inner", "deepest"}
      [] OTHER -> {node}

\* Node.contains: inclusive descendants in the light tree
contains(node, other) == other = node \/ other \in LightDescendants(node)

\* the document object as the hook reads it
DocumentOf(d, f, sh) ==
    [activeElement |-> IF d = "docA" THEN f ELSE NullElement,
     shadowRoot |-> sh]

\* lines 18-20, the loop
RECURSIVE ShadowWalk(_, _)
ShadowWalk(a, document) ==
    IF a # NullElement /\ a \in DOMAIN document.shadowRoot
    THEN ShadowWalk(document.shadowRoot[a], document)
    ELSE a

\* mutant: the walk stops at the first shadow root
getActiveElementOneLevel(document, deep) ==
    LET a == document.activeElement
    IN IF ~deep \/ a = NullElement THEN a
       ELSE IF a \in DOMAIN document.shadowRoot
            THEN document.shadowRoot[a]
            ELSE a

getActiveElement(document, deep) ==
    LET a == document.activeElement
    IN IF ~deep \/ a = NullElement THEN a
       ELSE ShadowWalk(a, document)

ActiveOptions(doc, win, deep, trigger) ==
    [document |-> doc, window |-> win, deep |-> deep,
     triggerOnRemoval |-> trigger]

ActiveOptionChoices ==
    { ActiveOptions(doc, win, deep, trigger) :
        doc \in Documents \cup {Undefined}, win \in Windows \cup {Undefined},
        deep \in BOOLEAN, trigger \in BOOLEAN }

\* lines 34-43: no option given; the global document is "docA"
DefaultOptions == ActiveOptions("docA", "win", TRUE, FALSE)

\* lines 56-67 with the document as it is when the closure runs
updateActiveElement(customDocument, deep, f, sh) ==
    activeElement' = IF customDocument = Undefined THEN Undefined
                     ELSE getActiveElement(DocumentOf(customDocument, f, sh),
                                           deep)

handleFocusChange(run) == [name |-> "handleFocusChange", run |-> run]

\* mutant: no initial read
InitialActiveEffectSkipped(o) == UNCHANGED activeElement

\* lines 70-74
InitialActiveEffect(o) ==
    IF o.document # Undefined
    THEN updateActiveElement(o.document, o.deep, focus, shadowActive)
    ELSE UNCHANGED activeElement

\* mutant: the initial effect depends on the document only
InitialEffectDepsDocumentOnly == {"document"}

\* line 74: updateActiveElement is a new function when deep changed
InitialEffectDeps == {"document", "deep"}

\* mutant: the cleanup leaves the blur listener
FocusCleanupKeepsBlur(c, lists) ==
    IF c = None THEN lists
    ELSE LET h == handleFocusChange(Val(c).run)
         IN [lists EXCEPT
               ![Val(c).document] = removeEventListener(
                                       removeEventListener(@, "focusin", h),
                                       "focusout", h),
               ![Val(c).window] = removeEventListener(@, "focus", h)]

\* lines 92-97
FocusCleanup(c, lists) ==
    IF c = None THEN lists
    ELSE LET h == handleFocusChange(Val(c).run)
         IN [lists EXCEPT
               ![Val(c).document] = removeEventListener(
                                       removeEventListener(@, "focusin", h),
                                       "focusout", h),
               ![Val(c).window] = removeEventListener(
                                     removeEventListener(@, "focus", h),
                                     "blur", h)]

\* lines 77-98
FocusEffect(o, lists) ==
    IF o.document = Undefined \/ o.window = Undefined
    THEN /\ listeners' = lists
         /\ cleanup' = None
         /\ effects' = effects
    ELSE LET h == handleFocusChange(effects + 1)
         IN /\ listeners' =
                  [lists EXCEPT
                     ![o.document] = addEventListener(
                                        addEventListener(@, "focusin", h,
                                                         "default"),
                                        "focusout", h, "default"),
                     ![o.window] = addEventListener(
                                      addEventListener(@, "focus", h,
                                                       "default"),
                                      "blur", h, "default")]
            /\ cleanup' = Some([document |-> o.document, window |-> o.window,
                                deep |-> o.deep, run |-> effects + 1])
            /\ effects' = effects + 1

\* lines 135-137: the observer at position c leaves the connected ones
Disconnect(c, obs) ==
    IF c = None THEN obs
    ELSE [i \in 1..(Len(obs) - 1) |-> IF i < Val(c) THEN obs[i] ELSE obs[i + 1]]

\* mutant: the observer effect does not look at the document
ObserverEffectWithoutDocument(o, rendered, obs) ==
    IF ~o.triggerOnRemoval
    THEN /\ observers' = obs
         /\ disconnect' = None
    ELSE /\ observers' = Append(obs, [document |-> o.document,
                                      deep |-> o.deep,
                                      activeElement |-> rendered])
         /\ disconnect' = Some(Len(obs) + 1)

\* mutant: the observer effect returns no cleanup
ObserverEffectLeaks(o, rendered, obs) ==
    IF ~o.triggerOnRemoval \/ o.document = Undefined
    THEN /\ observers' = obs
         /\ disconnect' = None
    ELSE /\ observers' = Append(obs, [document |-> o.document,
                                      deep |-> o.deep,
                                      activeElement |-> rendered])
         /\ disconnect' = None

\* lines 101-138: the observer captures the rendered activeElement
ObserverEffect(o, rendered, obs) ==
    IF ~o.triggerOnRemoval \/ o.document = Undefined
    THEN /\ observers' = obs
         /\ disconnect' = None
    ELSE /\ observers' = Append(obs, [document |-> o.document,
                                      deep |-> o.deep,
                                      activeElement |-> rendered])
         /\ disconnect' = Some(Len(obs) + 1)

ActiveInit ==
    /\ focus = Body
    /\ shadowActive = [h \in Hosts |-> NullElement]
    /\ removed = {}
    /\ activeElement = Undefined
    /\ activeElementRef = Undefined
    /\ observers = << >>
    /\ disconnect = None
    /\ listeners = [t \in Documents \cup Windows |->
                       IF t \in Documents
                       THEN {Listener("focusin", Foreign, "default")}
                       ELSE {Listener("blur", Foreign, "default")}]
    /\ mounted = "no"
    /\ deps = None
    /\ cleanup = None
    /\ ranCleanup = None
    /\ effects = 0
    /\ DragAbstracted
    /\ VisibilityAbstracted

\* first render and its effects, in the order of the source
useActiveElement ==
    /\ mounted = "no"
    /\ \E o \in ActiveOptionChoices :
          /\ deps' = Some(o)
          /\ activeElementRef' = activeElement
          /\ InitialActiveEffect(o)
          /\ FocusEffect(o, listeners)
          /\ ObserverEffect(o, activeElement, observers)
    /\ mounted' = "yes"
    /\ lastOp' = Op("mount", None)
    /\ UNCHANGED << focus, shadowActive, removed, ranCleanup, dragVars,
                    visibilityVars >>

\* the re-render setActiveElement scheduled: same options; the first effect
\* copies the rendered state into the ref and the observer effect, which
\* depends on activeElement, runs again
RenderActive ==
    /\ mounted = "yes"
    /\ activeElementRef # activeElement
    /\ activeElementRef' = activeElement
    /\ ObserverEffect(Val(deps), activeElement,
                      Disconnect(disconnect, observers))
    /\ lastOp' = Op("render", None)
    /\ UNCHANGED << focus, shadowActive, removed, activeElement,
                    registryVars, dragVars, visibilityVars >>

\* a re-render with one option changed: each effect runs when one of its
\* dependencies changed, its previous cleanup first
SetActiveOptions ==
    /\ mounted = "yes"
    /\ effects < MaxEffects
    /\ \E o \in ActiveOptionChoices :
          LET old == Val(deps)
              changed == Changed(old, o)
          IN /\ Cardinality(changed) = 1
             /\ deps' = Some(o)
             /\ activeElementRef' = activeElement
             /\ IF changed \cap InitialEffectDeps # {}
                THEN InitialActiveEffect(o)
                ELSE UNCHANGED activeElement
             /\ IF changed \cap {"document", "window", "deep"} # {}
                THEN FocusEffect(o, FocusCleanup(cleanup, listeners))
                ELSE UNCHANGED << listeners, cleanup, effects >>
             /\ IF \/ changed \cap {"triggerOnRemoval", "document", "deep"} # {}
                   \/ activeElement # activeElementRef
                THEN ObserverEffect(o, activeElement,
                                    Disconnect(disconnect, observers))
                ELSE UNCHANGED << observers, disconnect >>
             /\ lastOp' = Op("options", Some(changed))
    /\ UNCHANGED << focus, shadowActive, removed, mounted, ranCleanup,
                    dragVars, visibilityVars >>

\* the focus of the page moves, no event delivered yet
FocusChanges ==
    /\ \E st \in FocusStates :
          /\ st[1] \notin removed
          /\ st # << focus, shadowActive >>
          /\ focus' = st[1]
          /\ shadowActive' = st[2]
    /\ lastOp' = Op("activeChange", None)
    /\ UNCHANGED << removed, activeElement, activeElementRef, observers,
                    disconnect, registryVars, dragVars, visibilityVars >>

FocusListening(type, target) ==
    \E e \in listeners[target] :
        e.type = type /\ e.callback.name = "handleFocusChange"

\* an event of the given type is dispatched at the target
DispatchFocus(type, target) ==
    /\ IF FocusListening(type, target)
       THEN updateActiveElement(Val(cleanup).document, Val(cleanup).deep,
                                focus, shadowActive)
       ELSE UNCHANGED activeElement
    /\ lastOp' = Op(type, Some(target))
    /\ UNCHANGED << focus, shadowActive, removed, activeElementRef, observers,
                    disconnect, registryVars, dragVars, visibilityVars >>

FocusIn == \E d \in Documents : DispatchFocus("focusin", d)

FocusOut == \E d \in Documents : DispatchFocus("focusout", d)

WindowFocus == \E w \in Windows : DispatchFocus("focus", w)

WindowBlur == \E w \in Windows : DispatchFocus("blur", w)

\* lines 105-123 for one observer and the removed nodes of the records
shouldUpdate(ob, batch) ==
    \E node \in batch :
        node = ob.activeElement \/ contains(node, ob.activeElement)

\* nodes are removed from "docA", once: the page loses the focus it held
\* inside them, then the observers of its body are called back with the
\* records
Mutation ==
    /\ removed = {}
    /\ \E batch \in MutationChoices :
          /\ removed' = UNION {Subtree(n) : n \in batch}
          /\ focus' = IF focus \in removed' THEN Body ELSE focus
          /\ shadowActive' = IF focus \in removed'
                             THEN [h \in Hosts |-> NullElement]
                             ELSE shadowActive
          /\ LET called == {i \in 1..Len(observers) :
                               /\ observers[i].document = "docA"
                               /\ shouldUpdate(observers[i], batch)}
             IN IF called = {}
                THEN UNCHANGED activeElement
                ELSE LET ob == observers[CHOOSE i \in called : TRUE]
                     IN updateActiveElement(ob.document, ob.deep, focus',
                                            shadowActive')
          /\ lastOp' = Op("mutation", Some(batch))
    /\ UNCHANGED << activeElementRef, observers, disconnect, registryVars,
                    dragVars, visibilityVars >>

UnmountActive ==
    /\ mounted = "yes"
    /\ listeners' = FocusCleanup(cleanup, listeners)
    /\ cleanup' = None
    /\ observers' = Disconnect(disconnect, observers)
    /\ disconnect' = None
    /\ mounted' = "unmounted"
    /\ lastOp' = Op("unmount", None)
    /\ UNCHANGED << deps, effects, ranCleanup, focus, shadowActive, removed,
                    activeElement, activeElementRef, dragVars,
                    visibilityVars >>

NextActive ==
    \/ useActiveElement
    \/ RenderActive
    \/ SetActiveOptions
    \/ FocusChanges
    \/ FocusIn
    \/ FocusOut
    \/ WindowFocus
    \/ WindowBlur
    \/ Mutation
    \/ UnmountActive

SpecActive == ActiveInit /\ [][NextActive]_vars

\* ------------------------------------------- getActiveElement, step by step
\* One call of getActiveElement (lines 7-23) on a document whose active
\* element may be a shadow host, the hosts nested up to MaxChain deep: focus
\* is document.activeElement, shadowActive maps each host to the activeElement
\* of its shadow root, activeElement is the local variable of the function
\* and lastOp its position: "init" before the call, "loop" at the test of
\* line 18, "return" after the return, with deep as argument.
MaxChain == 3        \* shadow hosts nested in one another

HostName(i) == << "h1", "h2", "h3", "h4", "h5", "h6" >>[i]

ChainHosts == {HostName(i) : i \in 1..MaxChain}

Leaf == "leaf"       \* an element without a shadow root

\* a host's shadow root has no active element, or a plain element, or a host
\* nested deeper
ChainChoices ==
    { sh \in [ChainHosts -> {NullElement, Leaf} \cup ChainHosts] :
        \A i \in 1..MaxChain :
            sh[HostName(i)] \in ChainHosts =>
                \E j \in (i + 1)..MaxChain : sh[HostName(i)] = HostName(j) }

WalkInit ==
    /\ focus \in {NullElement, Leaf} \cup ChainHosts
    /\ shadowActive \in ChainChoices
    /\ activeElement = None
    /\ lastOp = Op("init", None)
    /\ removed = {}
    /\ activeElementRef = None
    /\ observers = << >>
    /\ disconnect = None
    /\ RegistryAbstracted
    /\ DragAbstracted
    /\ VisibilityAbstracted

\* mutant: the loop goes on only while the shadow root has an active element
LoopConditionWhileInside ==
    /\ activeElement # NullElement
    /\ activeElement \in DOMAIN shadowActive
    /\ shadowActive[activeElement] # NullElement

\* line 18: activeElement && activeElement.shadowRoot
LoopCondition ==
    /\ activeElement # NullElement
    /\ activeElement \in DOMAIN shadowActive

WalkFrame ==
    UNCHANGED << focus, shadowActive, removed, activeElementRef, observers,
                 disconnect, registryVars, dragVars, visibilityVars >>

\* lines 11-15: the call, which returns at once when deep is false or the
\* document has no active element
WalkEnter ==
    /\ lastOp.name = "init"
    /\ \E deep \in BOOLEAN :
          /\ activeElement' = focus
          /\ lastOp' = Op(IF ~deep \/ focus = NullElement
                          THEN "return" ELSE "loop", Some(deep))
    /\ WalkFrame

\* lines 18-20: one turn of the loop
WalkStep ==
    /\ lastOp.name = "loop"
    /\ LoopCondition
    /\ activeElement' = shadowActive[activeElement]
    /\ UNCHANGED lastOp
    /\ WalkFrame

\* line 22: the loop is left
WalkReturn ==
    /\ lastOp.name = "loop"
    /\ ~LoopCondition
    /\ lastOp' = Op("return", lastOp.arg)
    /\ UNCHANGED activeElement
    /\ WalkFrame

NextWalk ==
    \/ WalkEnter
    \/ WalkStep
    \/ WalkReturn

SpecWalk == WalkInit /\ [][NextWalk]_vars

\* a call that was started keeps running
SpecWalkFair == SpecWalk /\ WF_vars(NextWalk)

\* ================================================================ claims
FiredIs(name) == fired # NoCall /\ Val(fired).name = name

WellFormed(b) ==
    /\ Val(b).left <= Val(b).right
    /\ Val(b).top <= Val(b).bottom

InBounds(pos, b) ==
    /\ Val(b).left <= pos.x /\ pos.x <= Val(b).right
    /\ Val(b).top <= pos.y /\ pos.y <= Val(b).bottom

\* the handlers are those of a render that saw the latest state
InSync == draggableState = store

\* C1 (as stated): for every configured bounds rectangle, the position stored
\* by a move event lies within the bounds.
C1_MoveWithinBounds ==
    (FiredIs("onMove") /\ bounds # None) => InBounds(store.position, bounds)

\* C1 (amended): for every configured bounds rectangle with left <= right and
\* top <= bottom, the position stored by a move event lies within the bounds.
C1_MoveWithinWellFormedBounds ==
    (FiredIs("onMove") /\ bounds # None /\ WellFormed(bounds))
        => InBounds(store.position, bounds)

\* a move has just stored a position on the right and bottom edges
C1_Witness ==
    /\ FiredIs("onMove")
    /\ bounds # None
    /\ WellFormed(bounds)
    /\ store.position = Pt(Val(bounds).right, Val(bounds).bottom)
    /\ store.delta # Origin

\* C2 (as stated): with bounds configured, every operation that changes the
\* state leaves a position that satisfies the bounds (checked for well-formed
\* rectangles only, so that an inverted rectangle is not what refutes it).
C2_EveryMutationWithinBounds ==
    [][(store' # store /\ bounds # None /\ WellFormed(bounds))
          => InBounds(store'.position, bounds)]_vars

\* C2 (amended): with well-formed bounds configured, the position written by
\* a move event or by setPosition satisfies the bounds.
C2_ClampedWritesWithinBounds ==
    (bounds # None /\ WellFormed(bounds)
        /\ (FiredIs("onMove") \/ lastOp.name = "setPosition"))
        => InBounds(store.position, bounds)

\* setPosition has just stored something else than its argument
C2_Witness ==
    /\ lastOp.name = "setPosition"
    /\ bounds # None
    /\ WellFormed(bounds)
    /\ store.position # Val(lastOp.arg)

\* C3: whenever isDragging is false, startPosition is absent and delta is
\* {0,0}.
C3_IdleHasNoStartNoDelta ==
    ~store.isDragging => (store.startPosition = None /\ store.delta = Origin)

\* C4: a down event on the attached element while isDragging is true changes
\* nothing and does not invoke onStart (checked with the handlers up to date).
C4_DownWhileDraggingIgnored ==
    [][(lastOp'.name = "down" /\ store.isDragging /\ InSync)
          => (store' = store /\ startPosRef' = startPosRef
              /\ fired' = NoCall)]_vars

\* C5: after every move event that updates the state, delta is the position
\* stored after the move minus the position stored before it.
C5_DeltaIsPositionChange ==
    [][(fired' # NoCall /\ Val(fired').name = "onMove")
          => store'.delta = Pt(store'.position.x - store.position.x,
                               store'.position.y - store.position.y)]_vars

\* C6: while disabled is true, no down, move or up event changes the state
\* (the state cell or the start-offset ref) and no callback is invoked.
C6_DisabledNoOp ==
    [][(disabled /\ lastOp'.name \in EventNames)
          => (store' = store /\ startPosRef' = startPosRef
              /\ fired' = NoCall)]_vars

\* an event was delivered while disabled, during an open session
C6_Witness ==
    /\ disabled
    /\ lastOp.name \in EventNames
    /\ store.isDragging
    /\ draggableState.isDragging

\* the coordinate the axis option holds is the one a session started with
HeldAtStart ==
    /\ axis = "x" => store.position.y = Val(session).position.y
    /\ axis = "y" => store.position.x = Val(session).position.x

\* the held coordinate of the session's start position lies within the bounds
HeldWithinBounds ==
    /\ axis = "x" => /\ Val(bounds).top <= Val(session).position.y
                     /\ Val(session).position.y <= Val(bounds).bottom
    /\ axis = "y" => /\ Val(bounds).left <= Val(session).position.x
                     /\ Val(session).position.x <= Val(bounds).right

\* C7 (as stated): with axis x-only, over the move events of a session
\* position.y stays what it was at the start of the drag, and position.x with
\* axis y-only, whether or not bounds are configured (checked without bounds
\* and with well-formed rectangles only).
C7_AxisHeldAtStart ==
    (session # None /\ (bounds = None \/ WellFormed(bounds))) => HeldAtStart

\* C7 (amended): the same, provided no bounds are configured or the held
\* coordinate of the start position lies within the bounds.
C7_AxisHeldAtStartWithinBounds ==
    (session # None /\ (bounds = None \/ HeldWithinBounds)) => HeldAtStart

\* a move under bounds and axis x-only has changed x
C7_Witness ==
    /\ session # None
    /\ bounds # None
    /\ axis = "x"
    /\ FiredIs("onMove")
    /\ store.position.x # Val(session).position.x

\* the value clamp(v, lo, hi) may take: the nearest point of [lo, hi], or one
\* of the two limits when the range is inverted
ClampOf(v, r, lo, hi) ==
    IF lo <= hi
    THEN r = (IF v < lo THEN lo ELSE IF v > hi THEN hi ELSE v)
    ELSE r \in {lo, hi}

ClampedTo(arg, pos, b) ==
    IF b = None THEN pos = arg
    ELSE /\ ClampOf(arg.x, pos.x, Val(b).left, Val(b).right)
         /\ ClampOf(arg.y, pos.y, Val(b).top, Val(b).bottom)

\* C8: setPosition(x, y) stores position = clamp((x, y), bounds), or (x, y)
\* without bounds, and leaves isDragging, delta and the start offset as they
\* were, idle or dragging.
C8_SetPosition ==
    [][lastOp'.name = "setPosition"
          => /\ ClampedTo(Val(lastOp'.arg), store'.position, bounds)
             /\ store'.isDragging = store.isDragging
             /\ store'.delta = store.delta
             /\ store'.startPosition = store.startPosition
             /\ startPosRef' = startPosRef]_vars

\* setPosition was called during a session, after a move, and clamped
C8_Witness ==
    /\ lastOp.name = "setPosition"
    /\ store.isDragging
    /\ store.delta # Origin
    /\ bounds # None
    /\ store.position # Val(lastOp.arg)

\* C9: resetPosition() yields position = {0,0} and delta = {0,0} and leaves
\* isDragging and the start offset as they were.
C9_ResetPosition ==
    [][lastOp'.name = "resetPosition"
          => /\ store'.position = Origin
             /\ store'.delta = Origin
             /\ store'.isDragging = store.isDragging
             /\ store'.startPosition = store.startPosition
             /\ startPosRef' = startPosRef]_vars

\* resetPosition was called during a session, from a position off the origin
C9_Witness ==
    /\ lastOp.name = "resetPosition"
    /\ store.isDragging
    /\ draggableState.position # Origin
    /\ store.position = Origin

\* C10: every up event delivered while a session is open closes it, whatever
\* disabled is (checked with the handlers up to date).
C10_UpClosesSession ==
    [][(lastOp'.name = "up" /\ store.isDragging /\ InSync)
          => ~store'.isDragging]_vars

\* the step invoked the callback name
Invokes(name) == fired' # NoCall /\ Val(fired').name = name

\* C11: an up event that ends a session sets isDragging to false, leaves
\* position and delta exactly as the last move left them, and invokes onEnd
\* once, with that final state; onEnd is not invoked again without a new start.
C11_UpKeepsLastMove ==
    [][Invokes("onEnd")
          => /\ ~store'.isDragging
             /\ store'.position = store.position
             /\ store'.delta = store.delta
             /\ Val(fired').state = store'
             /\ unmatched]_vars

\* C12: the callbacks come as onStart, any number of onMove, onEnd, repeated:
\* onMove and onEnd only after an onStart that no onEnd has matched, and
\* onStart never while an earlier onStart is unmatched.
C12_CallbackOrder ==
    [][InSync => /\ (Invokes("onStart") => ~unmatched)
                 /\ (Invokes("onMove") \/ Invokes("onEnd") => unmatched)]_vars

\* the handlers were re-bound after the last start or end of a session
Bound == draggableState.isDragging = store.isDragging

\* the step changed neither the state, nor the start offset, nor called back
NoOp == store' = store /\ startPosRef' = startPosRef /\ fired' = NoCall

\* C14: with no element attached a down event starts nothing, and a session
\* that was open when the element was detached goes on: a move event still
\* stores a position and invokes onMove, an up event ends it with onEnd.
C14_DetachKeepsSession ==
    [][elementRef = NullElement
          => /\ (lastOp'.name = "down" => NoOp)
             /\ (listening /\ store.isDragging /\ Bound
                           /\ lastOp'.name = "move"
                    => /\ Invokes("onMove")
                       /\ store' = Val(fired').state
                       /\ store'.isDragging)
             /\ (listening /\ store.isDragging /\ Bound
                           /\ lastOp'.name = "up"
                    => /\ Invokes("onEnd")
                       /\ ~store'.isDragging)]_vars

C14_Witness ==
    /\ elementRef = NullElement
    /\ FiredIs("onMove")
    /\ store.position # draggableState.position

\* C15: a move or up event while no session is open changes nothing, calls
\* nothing back and throws nothing.
C15_IdleMoveUpNoOp ==
    [][(~store.isDragging /\ Bound /\ lastOp'.name \in {"move", "up"})
          => NoOp /\ ~thrown' /\ ~defaultPrevented']_vars

C15_Witness ==
    /\ lastOp.name = "up"
    /\ listening
    /\ ~store.isDragging
    /\ ~draggableState.isDragging
    /\ store.startPosition # None
    /\ fired = NoCall

\* a session is open or its end has not been rendered yet
SessionOpen == store.isDragging \/ draggableState.isDragging

\* C16: without a document or a window, or with no element attached, no
\* event changes the state or invokes a callback, and nothing throws.
C16_NoSurfaceNoElementNoOp ==
    [][(lastOp'.name \in EventNames
          /\ (~hasDocument \/ ~hasWindow \/ elementRef = NullElement))
          => NoOp /\ ~thrown']_vars

\* C16 (amended): without a document or a window no event changes the state
\* or invokes a callback; with no element attached no down event does, and
\* no event at all does while no session is open.
C16_NoSurfaceOrIdleNoElementNoOp ==
    [][(lastOp'.name \in EventNames
          /\ (\/ ~hasDocument
              \/ ~hasWindow
              \/ (elementRef = NullElement
                    /\ (lastOp'.name = "down" \/ ~SessionOpen))))
          => NoOp /\ ~thrown']_vars

C16_Witness ==
    /\ lastOp.name = "down"
    /\ hasDocument
    /\ ~hasWindow
    /\ ~disabled
    /\ elementRef = "el1"
    /\ steps > 1

\* C17: a callback that throws is invoked once and its exception leaves the
\* listener; by then the transition is complete: the state passed to the
\* callback is stored, after onStart the start offset is set, after onEnd
\* isDragging is false and the start offset ref is cleared.
C17_ThrowAfterTransition ==
    [][(fired' # NoCall /\ throwing)
          => /\ thrown'
             /\ store' = Val(fired').state
             /\ (Invokes("onStart") => /\ store'.isDragging
                                       /\ startPosRef' # None
                                       /\ startPosRef' = store'.startPosition)
             /\ (Invokes("onMove") => store'.isDragging)
             /\ (Invokes("onEnd") => /\ ~store'.isDragging
                                     /\ startPosRef' = None)]_vars

C17_Witness ==
    /\ thrown
    /\ FiredIs("onEnd")
    /\ ~store.isDragging
    /\ startPosRef = None
    /\ store.delta # Origin

\* C18: the state read through the returned ref is the latest stored state
\* wherever a caller can read it: inside a callback, during the render a state
\* change triggers, and after that render's effects.
C18_RefIsLatestState ==
    [][/\ (fired' # NoCall => resultRef' = store')
       /\ (lastOp'.name = "render" => resultRef = store /\ resultRef' = store')
      ]_vars

\* C19: preventDefault() is called on exactly the down events that start a
\* session and the move events that continue one, and on no ignored event.
C19_PreventDefault ==
    [][lastOp'.name \in EventNames
          => (defaultPrevented' <=> (Invokes("onStart") \/ Invokes("onMove")))
      ]_vars

C19_Witness ==
    /\ lastOp.name = "move"
    /\ defaultPrevented
    /\ store.delta # Origin

\* the listeners of the hook on document d
Own(d) == {e \in listeners[d] : e.callback # Foreign}

\* every listener of the hook is a handler of the live run of the effect, on
\* the document that run was given; a live run has its six handlers there;
\* no event type has two handlers; the foreign listeners stay
ListenersSymmetric ==
    /\ \A d \in Documents : \A e \in Own(d) :
           /\ cleanup # None
           /\ Val(cleanup).document = d
           /\ e.callback = HandlerOf(e.type, Val(cleanup).run)
    /\ cleanup # None =>
           \A type \in EventTypes : \E e \in Own(Val(cleanup).document) :
               e.type = type
    /\ \A type \in EventTypes :
           Cardinality({de \in Documents \X UNION {Own(d) : d \in Documents} :
                           de[2] \in Own(de[1]) /\ de[2].type = type}) <= 1
    /\ mounted = "unmounted" => \A d \in Documents : Own(d) = {}
    /\ \A d \in Documents :
           Listener("mousedown", Foreign, "default") \in listeners[d]

\* C13: across mount, re-renders and unmount each of the six event types has
\* at most one handler on the documents, every handler is removed from the
\* document it was added to, none remains after unmount, and a cleanup that
\* is run a second time removes nothing.
C13_ListenersSymmetric ==
    [][/\ ListenersSymmetric'
       /\ (lastOp'.name = "cleanupAgain" => listeners' = listeners)]_vars

C13_Witness ==
    /\ lastOp.name = "cleanupAgain"
    /\ cleanup # None
    /\ ranCleanup # None
    /\ Val(ranCleanup).document = Val(cleanup).document
    /\ effects >= 2

\* C20: as long as no render had immediate = true, the value of the
\* visibility ref is undefined after mount and stays undefined until a
\* visibilitychange, pagehide or pageshow event has reached the hook.
C20_UndefinedUntilEvent ==
    (mounted # "no" /\ ~wasImmediate /\ ~handled)
        => (visibilityRef = Undefined /\ visibilityState = Undefined)

C20_Witness ==
    /\ mounted = "yes"
    /\ ~wasImmediate
    /\ ~handled
    /\ cleanup # None
    /\ lastOp.name = "change"
    /\ visibilityRef = Undefined

VisibilityEvents == {"visibilitychange", "pagehide", "pageshow"}

\* C21: with a document the stored state is document.visibilityState after a
\* mount with immediate = true and after every event a listener of the hook
\* received, for each of visible, hidden and prerender, and the render that
\* follows makes it the value of the ref.
C21_ValueIsDocumentVisibility ==
    [][/\ (lastOp'.name = "mount" /\ Val(deps').document # Undefined
                                  /\ Val(deps').immediate)
             => visibilityState' = docVisibility[Val(deps').document]
       /\ (lastOp'.name \in VisibilityEvents
             /\ Listening(lastOp'.name, Val(lastOp'.arg)))
             => /\ visibilityState' = docVisibility[Val(deps).document]
                /\ visibilityState' \in VisibilityStates
       /\ (lastOp'.name = "render")
             => visibilityRef' = visibilityState']_vars

C21_Witness ==
    /\ lastOp.name = "render"
    /\ handled
    /\ visibilityRef = "prerender"
    /\ docVisibility[Val(deps).document] = "prerender"

\* the listeners of the visibility hook on target t
VisibilityOwn(t) == {e \in listeners[t] : e.callback # Foreign}

\* C22: with a document and a window the hook has visibilitychange on the
\* document and pagehide and pageshow on the window, all of the live run of
\* the effect; no event type has two handlers, the cleanup removes them from
\* the same objects and nothing else, and none remains after unmount.
C22_VisibilityListeners ==
    /\ \A t \in Documents \cup Windows : \A e \in VisibilityOwn(t) :
           /\ cleanup # None
           /\ e.callback = handleVisibilityChange(Val(cleanup).run)
           /\ \/ t = Val(cleanup).document /\ e.type = "visibilitychange"
              \/ t = Val(cleanup).window /\ e.type \in {"pagehide", "pageshow"}
    /\ cleanup # None =>
           /\ \E e \in VisibilityOwn(Val(cleanup).document) :
                  e.type = "visibilitychange"
           /\ \A type \in {"pagehide", "pageshow"} :
                  \E e \in VisibilityOwn(Val(cleanup).window) : e.type = type
    /\ (mounted = "yes" /\ Val(deps).document # Undefined
                        /\ Val(deps).window # Undefined) => cleanup # None
    /\ \A type \in VisibilityEvents :
           Cardinality({te \in (Documents \cup Windows)
                                \X UNION {VisibilityOwn(t) :
                                             t \in Documents \cup Windows} :
                           te[2] \in VisibilityOwn(te[1]) /\ te[2].type = type})
               <= 1
    /\ mounted = "unmounted" =>
           \A t \in Documents \cup Windows : VisibilityOwn(t) = {}
    /\ \A d \in Documents :
           Listener("visibilitychange", Foreign, "default") \in listeners[d]
    /\ \A w \in Windows :
           Listener("pagehide", Foreign, "default") \in listeners[w]

C22_Witness ==
    /\ mounted = "unmounted"
    /\ lastOp.name = "unmount"
    /\ ranCleanup # None
    /\ Val(ranCleanup).run >= 2

C24_ImmediateTurnedOn ==
    [][/\ (lastOp'.name = "options" /\ "immediate" \in Val(lastOp'.arg)
             /\ Val(deps').immediate /\ Val(deps').document # Undefined)
             => /\ visibilityState' = docVisibility[Val(deps').document]
                /\ handled' = handled
       /\ (lastOp'.name = "render" /\ lastOp.name = "options")
             => (visibilityRef' = visibilityState /\ handled' = handled)]_vars

C24_Witness ==
    /\ lastOp.name = "options"
    /\ Val(lastOp.arg) = {"immediate"}
    /\ Val(deps).immediate
    /\ ~handled
    /\ visibilityRef = Undefined
    /\ visibilityState = "hidden"

----------------------------------------------------------------------------
\* useActiveElement

FocusEvents == {"focusin", "focusout", "focus", "blur"}

\* what following shadowRoot.activeElement from the active element of the
\* document d reaches in the page of the model, whose chains have at most two
\* shadow roots
Resolution(d, deep) ==
    IF d # "docA" THEN NullElement
    ELSE IF ~deep \/ focus \notin Hosts THEN focus
    ELSE IF shadowActive[focus] \notin Hosts THEN shadowActive[focus]
    ELSE shadowActive[shadowActive[focus]]

C26_ValueIsResolvedActiveElement ==
    [][/\ (/\ lastOp'.name \in FocusEvents
           /\ FocusListening(lastOp'.name, Val(lastOp'.arg))) =>
             activeElement' = Resolution(Val(deps).document, Val(deps).deep)
       /\ (mounted = "yes" /\ lastOp'.name = "render") =>
             activeElementRef' = activeElement]_vars

C26_Witness ==
    /\ lastOp.name = "focusin"
    /\ FocusListening("focusin", Val(lastOp.arg))
    /\ Val(deps).deep
    /\ activeElement = "deepest"
    /\ activeElementRef = "input"

\* C27: an observer is connected exactly while the hook is mounted with
\* triggerOnRemoval and a document, it observes the body of that document and
\* is the one the live cleanup disconnects; there is never a second one and
\* none after unmount, whatever was rendered in between.
C27_ObserverLifecycle ==
    /\ Len(observers) <= 1
    /\ observers # << >> <=> /\ mounted = "yes"
                             /\ Val(deps).triggerOnRemoval
                             /\ Val(deps).document # Undefined
    /\ observers # << >> => /\ observers[1].document = Val(deps).document
                            /\ disconnect = Some(1)
    /\ observers = << >> => disconnect = None
    /\ mounted = "unmounted" => observers = << >>

C27_Witness ==
    /\ mounted = "unmounted"
    /\ lastOp.name = "unmount"
    /\ Val(deps).triggerOnRemoval
    /\ Val(deps).document = "docA"
    /\ activeElementRef = "input"
    /\ activeElement = "host"

\* C28 as stated: with triggerOnRemoval, and the rendered value the stored
\* one, a mutation that removes the active element or a node whose subtree
\* holds it stores the element read from the document after the removal, and
\* a mutation that removes only other nodes leaves the stored element alone.
C28_RemovalRereads ==
    [][(/\ lastOp'.name = "mutation"
        /\ mounted = "yes"
        /\ Val(deps).triggerOnRemoval
        /\ Val(deps).document = "docA"
        /\ activeElementRef = activeElement) =>
          IF activeElement \in removed'
          THEN activeElement' =
                  Resolution(Val(deps).document, Val(deps).deep)'
          ELSE activeElement' = activeElement]_vars

\* C29: a re-render that turns deep on while the document's active element is
\* a shadow host whose shadow root has an active element stores the end of
\* the chain that starts there instead of the host, in the render itself, and
\* the render that follows makes it the value.
C29_DeepTurnedOn ==
    [][/\ (/\ lastOp'.name = "options"
           /\ Val(lastOp'.arg) = {"deep"}
           /\ Val(deps').deep
           /\ Val(deps').document = "docA"
           /\ focus = "host"
           /\ shadowActive["host"] # NullElement
           /\ activeElement = "host") =>
             /\ activeElement' = Resolution("docA", TRUE)
             /\ activeElement' # "host"
       /\ (/\ lastOp.name = "options"
           /\ lastOp'.name = "render") => activeElementRef' = activeElement]_vars

C29_Witness ==
    /\ lastOp.name = "render"
    /\ Val(deps).deep
    /\ effects = 2
    /\ focus = "host"
    /\ activeElementRef = "deepest"
    /\ cleanup # None

FocusOwn(t) == {e \in listeners[t] : e.callback # Foreign}

\* C30: with a document and a window the hook has focusin and focusout on the
\* document and focus and blur on the window, all of the live run of the
\* effect; no event type has two handlers, the cleanup removes them from the
\* same objects and nothing else, and none remains after unmount.
C30_FocusListeners ==
    /\ \A t \in Documents \cup Windows : \A e \in FocusOwn(t) :
           /\ cleanup # None
           /\ e.callback = handleFocusChange(Val(cleanup).run)
           /\ \/ t = Val(cleanup).document /\ e.type \in {"focusin", "focusout"}
              \/ t = Val(cleanup).window /\ e.type \in {"focus", "blur"}
    /\ cleanup # None =>
           /\ \A type \in {"focusin", "focusout"} :
                  \E e \in FocusOwn(Val(cleanup).document) : e.type = type
           /\ \A type \in {"focus", "blur"} :
                  \E e \in FocusOwn(Val(cleanup).window) : e.type = type
           /\ Val(cleanup).document = Val(deps).document
           /\ Val(cleanup).window = Val(deps).window
    /\ (mounted = "yes" /\ Val(deps).document # Undefined
                        /\ Val(deps).window # Undefined) => cleanup # None
    /\ \A type \in FocusEvents :
           Cardinality({te \in (Documents \cup Windows)
                                \X UNION {FocusOwn(t) :
                                             t \in Documents \cup Windows} :
                           te[2] \in FocusOwn(te[1]) /\ te[2].type = type})
               <= 1
    /\ mounted = "unmounted" =>
           \A t \in Documents \cup Windows : FocusOwn(t) = {}
    /\ \A d \in Documents :
           Listener("focusin", Foreign, "default") \in listeners[d]
    /\ \A w \in Windows :
           Listener("blur", Foreign, "default") \in listeners[w]

C30_Witness ==
    /\ mounted = "unmounted"
    /\ lastOp.name = "unmount"
    /\ effects = MaxEffects
    /\ Val(deps).document = "docB"
    /\ Val(deps).window # Undefined

\* neither a document nor a window is available to the render with options o
NoSurface(o) == o.document = Undefined /\ o.window = Undefined

----------------------------------------------------------------------------
\* useDraggable, with the inputs of the events

\* the closures were created by a render that saw the stored position
PositionRendered == draggableState.position = store.position

\* pointer minus offset
Minus(p, q) == Pt(p.x - q.x, p.y - q.y)

\* the position with the component the axis option does not select replaced
\* by that of prev
Held(raw, ax, prev) ==
    Pt(IF ax = "y" THEN prev.x ELSE raw.x, IF ax = "x" THEN prev.y ELSE raw.y)

C36_AxisChangeMidSession ==
    [][/\ (lastOp'.name = "render" /\ axis' # axis /\ store.isDragging) =>
             /\ store' = store
             /\ startPosRef' = startPosRef
             /\ draggableState' = store
       /\ (/\ lastOp.name = "render"
           /\ lastOp'.name = "move"
           /\ store.isDragging
           /\ ~disabled
           /\ startPosRef # None) =>
             LET raw == Minus(Val(lastOp'.arg).pointer, Val(startPosRef))
             IN /\ Invokes("onMove")
                /\ store'.isDragging
                /\ ClampedTo(Held(raw, axis, store.position),
                             store'.position, bounds)
                /\ bounds = None =>
                      /\ axis = "x" =>
                            /\ store'.position.y = store.position.y
                            /\ store'.position.x = raw.x
                      /\ axis = "y" =>
                            /\ store'.position.x = store.position.x
                            /\ store'.position.y = raw.y]_vars

C36_Witness ==
    /\ lastOp.name = "move"
    /\ FiredIs("onMove")
    /\ session = None
    /\ bounds = None
    /\ axis = "y"
    /\ store.position.x = 1
    /\ store.position.y = Val(lastOp.arg).pointer.y - Val(startPosRef).y
    /\ store.position.y # draggableState.position.y

\* C37: only a down event whose target is the element attached at that
\* moment starts a session; a down event on another target, the element that
\* was attached before included, changes nothing, calls nothing back and is
\* not default-prevented.
C37_OnlyAttachedTargetStarts ==
    [][/\ (lastOp'.name = "down" /\ Val(lastOp'.arg).target # elementRef) =>
             NoOp /\ ~defaultPrevented'
       /\ Invokes("onStart") =>
             /\ lastOp'.name = "down"
             /\ Val(lastOp'.arg).target = elementRef
             /\ elementRef # NullElement
       /\ (store'.isDragging /\ ~store.isDragging) => Invokes("onStart")]_vars

C37_Witness ==
    /\ lastOp.name = "down"
    /\ Val(lastOp.arg).target = "el1"
    /\ elementRef = "el2"
    /\ listening
    /\ fired = NoCall
    /\ ~store.isDragging

\* C34: the up event that ends a session clears the start offset: the state
\* it stores and the state it passes to onEnd have no startPosition.
C34_UpClearsStartOffset ==
    [][Invokes("onEnd")
          => /\ store'.startPosition = None
             /\ Val(fired').state.startPosition = None]_vars

\* C35: with bounds inverted on an axis nothing throws and every position a
\* move event or setPosition stores has one and the same coordinate on that
\* axis, the limit named left (or top), whatever the pointer or the argument.
C35_InvertedBoundsCollapse ==
    (bounds # None /\ (FiredIs("onMove") \/ lastOp.name = "setPosition"))
        => /\ Val(bounds).left > Val(bounds).right
                 => store.position.x = Val(bounds).left
           /\ Val(bounds).top > Val(bounds).bottom
                 => store.position.y = Val(bounds).top
           /\ ~thrown

C35_Witness ==
    /\ FiredIs("onMove")
    /\ lastOp.name = "move"
    /\ bounds = Some(Rect(1, 2, 0, 1))
    /\ axis = "both"
    /\ store.position = Pt(1, 2)
    /\ Val(store.startPosition) = Pt(0, 1)

\* C38: the up event that follows the last move of a session, rendered in
\* between or not, stores and passes to onEnd the position that move stored.
C38_EndHasLastMovePosition ==
    [][(/\ lastOp.name = "move"
        /\ FiredIs("onMove")
        /\ lastOp'.name = "up"
        /\ Invokes("onEnd"))
          => /\ Val(fired').state.position = store.position
             /\ store'.position = store.position]_vars

\* C39: a move event handled right after another one, no render in between,
\* stores a delta equal to its position minus the position the first stored,
\* and keeps the component the axis does not select at the stored value.
C39_SecondMoveUsesFirst ==
    [][(/\ lastOp.name = "move"
        /\ FiredIs("onMove")
        /\ lastOp'.name = "move"
        /\ Invokes("onMove"))
          => /\ store'.delta = Pt(store'.position.x - store.position.x,
                                  store'.position.y - store.position.y)
             /\ axis = "x" => store'.position.y = store.position.y
             /\ axis = "y" => store'.position.x = store.position.x]_vars

----------------------------------------------------------------------------
\* getActiveElement

\* the elements the walk can visit: the document's active element and, for
\* every host among them, the active element of its shadow root
RECURSIVE ChainFrom(_, _)
ChainFrom(S, n) ==
    IF n = 0 THEN S
    ELSE ChainFrom(S \cup {shadowActive[h] : h \in S \cap ChainHosts}, n - 1)

OnChain == ChainFrom({focus}, MaxChain)

\* the call has returned what the claim describes: with deep the element of
\* the chain that has no shadow root, which is null as soon as some host on
\* the chain has a shadow root without active element; without deep the
\* document's active element
WalkResult ==
    /\ lastOp.name = "return"
    /\ IF Val(lastOp.arg)
       THEN /\ activeElement \in OnChain \ ChainHosts
            /\ (\E h \in OnChain \cap ChainHosts :
                   shadowActive[h] = NullElement)
                  => activeElement = NullElement
       ELSE activeElement = focus
    /\ activeElement = getActiveElement([activeElement |-> focus,
                                         shadowRoot |-> shadowActive],
                                        Val(lastOp.arg))

\* C40: every call of getActiveElement on a chain of nested shadow hosts
\* returns, and with deep = true a chain that reaches a shadow root without
\* active element gives null, not the host.
C40_WalkTerminates == <>[]WalkResult

C40_Witness ==
    /\ lastOp.name = "return"
    /\ Val(lastOp.arg)
    /\ focus = HostName(1)
    /\ shadowActive[HostName(1)] = HostName(2)
    /\ shadowActive[HostName(2)] = HostName(MaxChain)
    /\ shadowActive[HostName(MaxChain)] = NullElement
    /\ activeElement = NullElement

TypeOK ==
    /\ store.isDragging \in BOOLEAN
    /\ draggableState.isDragging \in BOOLEAN
    /\ elementRef \in Elements \cup {NullElement}
    /\ axis \in Axes
    /\ bounds \in BoundsChoices
    /\ store.position \in [x : Int, y : Int]
    /\ lastOp.name \in EventNames \cup
           {"init", "setElementRef", "resetPosition", "setPosition", "render",
            "mount", "unmount", "cleanupAgain", "change", "options",
            "activeChange", "focusin", "focusout", "focus", "blur",
            "mutation", "loop", "return",
            "visibilitychange", "pagehide", "pageshow"}
====
